---- MODULE Spec2Model ----
(***************************************************************************)
(* Model of src/config.go: loadConfig (read, decode, validate, sanity      *)
(* checks, extension normalisation, per-podcast loop) and                  *)
(* watcherConfig.urlFor.                                                   *)
(*                                                                         *)
(* Go strings whose content the code inspects (extension, epoch, title     *)
(* filter, host, path, URL) are sequences of one-character strings.        *)
(* Strings that are only compared (API key, format selector, short name)   *)
(* are TLA+ strings.  A Go pointer is Nil (<<>>) or a one-element          *)
(* sequence holding the pointee.                                           *)
(***************************************************************************)
EXTENDS Integers, Sequences, FiniteSets, TLC

VARIABLES pc, file, c, err, i, podcastShortNameSet, ret, filePath, url

vars == <<pc, file, c, err, i, podcastShortNameSet, ret, filePath, url>>

\* ------------------------------------------------------------------------
\* Bounds

MaxFeeds == 3

\* ------------------------------------------------------------------------
\* Values

Nil == <<>>

Digits == <<"0", "1", "2", "3", "4", "5", "6", "7", "8", "9">>

isDigitChar(ch) == \E k \in 1..10 : Digits[k] = ch

DigitVal(ch) == (CHOOSE k \in 1..10 : Digits[k] = ch) - 1

\* time.Time as a calendar date at midnight UTC; the zero Time is
\* January 1, year 1.
ZeroTime == [year |-> 1, month |-> 1, day |-> 1]

NoErr == [kind |-> "nil", fields |-> {}, msg |-> "", sn |-> "", value |-> <<>>]

MkErr(kind, fields, msg, sn, value) ==
    [kind |-> kind, fields |-> fields, msg |-> msg, sn |-> sn, value |-> value]

\* ------------------------------------------------------------------------
\* strings.TrimLeft(s, "."): drop every leading "." character.

RECURSIVE TrimLeftDots(_)
TrimLeftDots(s) ==
    IF s # <<>> /\ Head(s) = "." THEN TrimLeftDots(Tail(s)) ELSE s

\* ------------------------------------------------------------------------
\* fmt.Sprintf("%d", n)

RECURSIVE FmtNat(_)
FmtNat(n) ==
    IF n < 10 THEN <<Digits[n + 1]>>
    ELSE FmtNat(n \div 10) \o <<Digits[(n % 10) + 1]>>

FmtInt(n) == IF n < 0 THEN <<"-">> \o FmtNat(-n) ELSE FmtNat(n)

HttpPrefix == <<"h", "t", "t", "p", ":", "/", "/">>

\* urlFor with the default port taken to be 0 instead of 80.
urlFor_DefaultPortZero(wc, path) ==
    LET portPart == IF wc.ServePort # 0
                    THEN <<":">> \o FmtInt(wc.ServePort)
                    ELSE <<>>
    IN  HttpPrefix \o wc.ServeHost \o portPart \o <<"/">> \o path

urlFor(wc, path) ==
    LET portPart == IF wc.ServePort # 80
                    THEN <<":">> \o FmtInt(wc.ServePort)
                    ELSE <<>>
    IN  HttpPrefix \o wc.ServeHost \o portPart \o <<"/">> \o path

\* ------------------------------------------------------------------------
\* time.Parse("2006-01-02", value).  The layout is consumed chunk by chunk:
\* year (exactly four digits), "-", month (two digits, 1..12), "-",
\* day (two digits), then no text may remain and the day must exist in
\* the month.  Each step yields [ok, n, rest].

isDigit(s, k) == Len(s) > k /\ isDigitChar(s[k + 1])

Drop(s, n) == SubSeq(s, n + 1, Len(s))

\* case stdLongYear
parseYear(s) ==
    IF Len(s) < 4 \/ ~isDigit(s, 0)
    THEN [ok |-> FALSE, n |-> 0, rest |-> s]
    ELSE IF \A k \in 1..3 : isDigit(s, k)
         THEN [ok |-> TRUE,
               n |-> DigitVal(s[1]) * 1000 + DigitVal(s[2]) * 100
                     + DigitVal(s[3]) * 10 + DigitVal(s[4]),
               rest |-> Drop(s, 4)]
         ELSE [ok |-> FALSE, n |-> 0, rest |-> Drop(s, 4)]

\* getnum that takes a single digit even when two are required.
getnum_IgnoresFixed(s, fixed) ==
    IF ~isDigit(s, 0) THEN [ok |-> FALSE, n |-> 0, rest |-> s]
    ELSE IF ~isDigit(s, 1)
         THEN [ok |-> TRUE, n |-> DigitVal(s[1]), rest |-> Drop(s, 1)]
         ELSE [ok |-> TRUE, n |-> DigitVal(s[1]) * 10 + DigitVal(s[2]),
               rest |-> Drop(s, 2)]

\* getnum(s, fixed)
getnum(s, fixed) ==
    IF ~isDigit(s, 0) THEN [ok |-> FALSE, n |-> 0, rest |-> s]
    ELSE IF ~isDigit(s, 1)
         THEN IF fixed THEN [ok |-> FALSE, n |-> 0, rest |-> s]
              ELSE [ok |-> TRUE, n |-> DigitVal(s[1]), rest |-> Drop(s, 1)]
         ELSE [ok |-> TRUE, n |-> DigitVal(s[1]) * 10 + DigitVal(s[2]),
               rest |-> Drop(s, 2)]

\* skip(value, "-")
skipDash(s) ==
    IF s # <<>> /\ Head(s) = "-"
    THEN [ok |-> TRUE, n |-> 0, rest |-> Tail(s)]
    ELSE [ok |-> FALSE, n |-> 0, rest |-> s]

isLeap(year) == year % 4 = 0 /\ (year % 100 # 0 \/ year % 400 = 0)

daysIn(month, year) ==
    IF month = 2 THEN (IF isLeap(year) THEN 29 ELSE 28)
    ELSE IF month \in {4, 6, 9, 11} THEN 30 ELSE 31

timeParse(value) ==
    LET bad == [ok |-> FALSE, t |-> ZeroTime]
        y   == parseYear(value)
        d1  == skipDash(y.rest)
        m   == getnum(d1.rest, TRUE)
        d2  == skipDash(m.rest)
        d   == getnum(d2.rest, TRUE)
    IN  IF ~y.ok THEN bad
        ELSE IF ~d1.ok THEN bad
        ELSE IF ~m.ok \/ m.n <= 0 \/ 12 < m.n THEN bad
        ELSE IF ~d2.ok THEN bad
        ELSE IF ~d.ok THEN bad
        ELSE IF d.rest # <<>> THEN bad
        ELSE IF d.n < 1 \/ d.n > daysIn(m.n, y.n) THEN bad
        ELSE [ok |-> TRUE, t |-> [year |-> y.n, month |-> m.n, day |-> d.n]]

\* ------------------------------------------------------------------------
\* regexp.Compile(fmt.Sprintf("(?i:%s)", str)) for patterns over the
\* alphabet {"a", "(", ")"}: a left-to-right scan keeping the number of
\* open groups; "(?i:" opens a flagged group.

WrapCaseInsensitive(str) == <<"(", "?", "i", ":">> \o str \o <<")">>

RECURSIVE regexpScan(_, _)
regexpScan(s, depth) ==
    IF s = <<>> THEN depth = 0
    ELSE IF Head(s) = "("
         THEN IF Len(s) >= 2 /\ s[2] = "?"
              THEN Len(s) >= 4 /\ s[3] = "i" /\ s[4] = ":"
                   /\ regexpScan(Drop(s, 4), depth + 1)
              ELSE regexpScan(Tail(s), depth + 1)
    ELSE IF Head(s) = ")"
         THEN depth > 0 /\ regexpScan(Tail(s), depth - 1)
    ELSE regexpScan(Tail(s), depth)

regexpCompile(expr) ==
    IF regexpScan(expr, 0) THEN [ok |-> TRUE, re |-> <<expr>>]
    ELSE [ok |-> FALSE, re |-> Nil]

\* ------------------------------------------------------------------------
\* set.Strings

\* A membership test that never finds the element.
Contains_NeverFound(s, elem) == FALSE

Contains(s, elem) == elem \in s

\* An insertion that is lost.
Add_Lost(s, elem) == s

Add(s, elem) == s \cup {elem}

\* ------------------------------------------------------------------------
\* config.Validate: validation.Required on YTDataAPIKey and
\* validation.Length(3, 0) on Podcasts.  The Length rule accepts an empty
\* (or nil) value and only then compares the length with the minimum;
\* ValidateStruct collects the failing fields.

RequiredFails(s) == s = ""

LengthFails(seq, min) == ~(seq = <<>>) /\ Len(seq) < min

Validate(cfg) ==
    LET bad == (IF RequiredFails(cfg.YTDataAPIKey)
                THEN {"yt_data_api_key"} ELSE {})
               \cup (IF LengthFails(cfg.Podcasts, 3) THEN {"podcasts"} ELSE {})
    IN  IF bad = {} THEN NoErr
        ELSE MkErr("Validate", bad, "", "", <<>>)

\* The sanity checks of loadConfig, first failure wins.
SanityCheck(cfg) ==
    IF cfg.CheckIntervalMinutes < 1
    THEN MkErr("Sanity", {}, "check interval must be >= 1 minutes", "", <<>>)
    ELSE IF cfg.YTDLFmtSelector = ""
    THEN MkErr("Sanity", {}, "missing format selector", "", <<>>)
    ELSE IF cfg.YTDLWriteExt = <<>>
    THEN MkErr("Sanity", {}, "missing file type extension", "", <<>>)
    ELSE IF cfg.ServeHost = <<>>
    THEN MkErr("Sanity", {}, "missing host to webserve on", "", <<>>)
    ELSE IF cfg.ServePort = 0
    THEN MkErr("Sanity", {}, "missing fixed port to webserve on", "", <<>>)
    ELSE NoErr

\* ------------------------------------------------------------------------
\* Input documents

ShortNames == {"", "a", "b", "c"}

E_2020_01_15 == <<"2", "0", "2", "0", "-", "0", "1", "-", "1", "5">>
E_2020_02_30 == <<"2", "0", "2", "0", "-", "0", "2", "-", "3", "0">>
E_2020_1_15  == <<"2", "0", "2", "0", "-", "1", "-", "1", "5">>

EpochPool == {<<>>, E_2020_01_15, E_2020_02_30, E_2020_1_15}

GoodPattern == <<"a">>
BadPattern  == <<"(">>

\* json.Unmarshal leaves Epoch and TitleFilter at their zero values; the
\* podcast fields loadConfig never reads are left out.
RawPodcast(sn, es, tf) ==
    [ShortName |-> sn, EpochStr |-> es, Epoch |-> ZeroTime,
     TitleFilterStr |-> tf, TitleFilter |-> Nil]

PodcastPool ==
    {RawPodcast(sn, es, GoodPattern) : sn \in ShortNames, es \in EpochPool}
    \cup {RawPodcast(sn, <<>>, BadPattern) : sn \in ShortNames}

NameList == <<"a", "b", "c", "d", "e", "f">>

PlainFeeds(n) == [k \in 1..n |-> RawPodcast(NameList[k], <<>>, GoodPattern)]

ExtPool == {<<>>, <<".">>, <<".", "m">>, <<"m">>}

MkConfig(key, interval, sel, ext, host, port, pods) ==
    [YTDataAPIKey |-> key, CheckIntervalMinutes |-> interval,
     YTDLFmtSelector |-> sel, YTDLWriteExt |-> ext, ServeHost |-> host,
     ServePort |-> port, Podcasts |-> pods]

\* Documents that vary the top-level fields over plain feed lists, and
\* documents that vary the feed list under good top-level fields.
Docs ==
    {MkConfig(key, interval, sel, ext, host, port, PlainFeeds(n)) :
        key \in {"", "k"}, interval \in {0, 1}, sel \in {"", "f"},
        ext \in ExtPool, host \in {<<>>, <<"h">>}, port \in {0, 80, 8080},
        n \in 0..MaxFeeds}
    \cup
    {MkConfig("k", 1, "f", <<".", "m">>, <<"h">>, 8080, pods) :
        pods \in UNION {[1..n -> PodcastPool] : n \in 0..MaxFeeds}}

Files ==
    {[readable |-> FALSE, wellFormed |-> FALSE, doc |-> Nil],
     [readable |-> TRUE, wellFormed |-> FALSE, doc |-> Nil]}
    \cup {[readable |-> TRUE, wellFormed |-> TRUE, doc |-> <<d>>] : d \in Docs}

\* ------------------------------------------------------------------------
\* loadConfig

NoRet == [c |-> Nil, err |-> NoErr]

\* A failure return that hands out the config built so far.
Fail_KeepsConfig(e) == [c |-> c, err |-> e]

\* return nil, err
Fail(e) == [c |-> Nil, err |-> e]

Init ==
    /\ pc = "ReadFile"
    /\ file \in Files
    /\ c = Nil
    /\ err = NoErr
    /\ i = 0
    /\ podcastShortNameSet = {}
    /\ ret = NoRet
    /\ filePath = <<>>
    /\ url = <<>>

\* buf, err := ioutil.ReadFile(path) assigns the named result err.
ReadFile ==
    /\ pc = "ReadFile"
    /\ IF file.readable
       THEN /\ err' = NoErr
            /\ pc' = "Unmarshal"
            /\ ret' = ret
       ELSE /\ err' = MkErr("ReadFile", {}, "", "", <<>>)
            /\ ret' = Fail(err')
            /\ pc' = "returned"
    /\ UNCHANGED <<file, c, i, podcastShortNameSet, filePath, url>>

Unmarshal ==
    /\ pc = "Unmarshal"
    /\ IF file.wellFormed
       THEN /\ c' = file.doc
            /\ pc' = "Validate"
            /\ ret' = ret
       ELSE /\ c' = c
            /\ ret' = Fail(MkErr("Unmarshal", {}, "", "", <<>>))
            /\ pc' = "returned"
    /\ UNCHANGED <<file, err, i, podcastShortNameSet, filePath, url>>

ValidateStep ==
    /\ pc = "Validate"
    /\ LET e == Validate(c[1])
       IN  IF e.kind # "nil"
           THEN ret' = Fail(e) /\ pc' = "returned"
           ELSE ret' = ret /\ pc' = "Sanity"
    /\ UNCHANGED <<file, c, err, i, podcastShortNameSet, filePath, url>>

\* The sanity checks, then c.YTDLWriteExt = strings.TrimLeft(...)
Sanity ==
    /\ pc = "Sanity"
    /\ LET e == SanityCheck(c[1])
       IN  IF e.kind # "nil"
           THEN /\ ret' = Fail(e)
                /\ pc' = "returned"
                /\ c' = c
           ELSE /\ ret' = ret
                /\ pc' = "Loop"
                /\ c' = <<[c[1] EXCEPT !.YTDLWriteExt = TrimLeftDots(@)]>>
    /\ i' = 0
    /\ podcastShortNameSet' = {}
    /\ UNCHANGED <<file, err, filePath, url>>

\* One iteration of  for i := range c.Podcasts
LoopIter ==
    /\ pc = "Loop"
    /\ i < Len(c[1].Podcasts)
    /\ LET p  == c[1].Podcasts[i + 1]
           es == p.EpochStr
           pt == IF es # <<>> THEN timeParse(es) ELSE [ok |-> TRUE, t |-> ZeroTime]
           rx == regexpCompile(WrapCaseInsensitive(p.TitleFilterStr))
           sn == p.ShortName
           c1 == [c[1] EXCEPT !.Podcasts[i + 1].Epoch = pt.t]
           c2 == [c1 EXCEPT !.Podcasts[i + 1].TitleFilter = rx.re]
       IN  IF ~pt.ok
           THEN /\ ret' = Fail(MkErr("ParseError", {}, "", "", es))
                /\ pc' = "returned"
                /\ UNCHANGED <<c, i, podcastShortNameSet>>
           ELSE IF ~rx.ok
           THEN /\ ret' = Fail(MkErr("RegexpError", {}, "", "",
                                     WrapCaseInsensitive(p.TitleFilterStr)))
                /\ pc' = "returned"
                /\ c' = <<c1>>
                /\ UNCHANGED <<i, podcastShortNameSet>>
           ELSE IF Contains(podcastShortNameSet, sn)
           THEN /\ ret' = Fail(MkErr("Duplicate", {},
                                     "multiple podcasts using shortname", sn, <<>>))
                /\ pc' = "returned"
                /\ c' = <<c2>>
                /\ UNCHANGED <<i, podcastShortNameSet>>
           ELSE /\ podcastShortNameSet' = Add(podcastShortNameSet, sn)
                /\ c' = <<c2>>
                /\ i' = i + 1
                /\ UNCHANGED <<ret, pc>>
    /\ UNCHANGED <<file, err, filePath, url>>

\* return c, err
Return ==
    /\ pc = "Loop"
    /\ i = Len(c[1].Podcasts)
    /\ ret' = [c |-> c, err |-> err]
    /\ pc' = "returned"
    /\ UNCHANGED <<file, c, err, i, podcastShortNameSet, filePath, url>>

Next == ReadFile \/ Unmarshal \/ ValidateStep \/ Sanity \/ LoopIter \/ Return

Spec == Init /\ [][Next]_vars

\* ------------------------------------------------------------------------
\* watcherConfig.urlFor, called on an arbitrary watcherConfig

HostPool == {<<>>, <<"h">>, <<"h", ".", "o">>}

PortPool == {-1, 0, 8, 79, 80, 81, 443, 8080}

PathPool == {<<>>, <<"x">>, <<"x", ".", "x", "m", "l">>, <<"a", "/", "b">>}

InitUrl ==
    /\ pc = "urlFor"
    /\ file = [readable |-> FALSE, wellFormed |-> FALSE, doc |-> Nil]
    /\ \E host \in HostPool, port \in PortPool :
          c = <<MkConfig("k", 1, "f", <<"m">>, host, port, <<>>)>>
    /\ err = NoErr
    /\ i = 0
    /\ podcastShortNameSet = {}
    /\ ret = NoRet
    /\ filePath = <<>>
    /\ url = <<>>

CallUrlFor ==
    /\ pc = "urlFor"
    /\ \E path \in PathPool :
          /\ filePath' = path
          /\ url' = urlFor(c[1], path)
    /\ UNCHANGED <<pc, file, c, err, i, podcastShortNameSet, ret>>

NextUrl == CallUrlFor

SpecUrl == InitUrl /\ [][NextUrl]_vars

\* ========================================================================
\* Properties
\* ========================================================================

Returned == pc = "returned"

Success == Returned /\ ret.c # Nil

Cfg == ret.c[1]

Decoded == file.readable /\ file.wellFormed

Doc == file.doc[1]

\* A calendar date written YYYY-MM-DD, stated positionally.
Num2(s, k) == DigitVal(s[k]) * 10 + DigitVal(s[k + 1])

DateOf(s) ==
    [year |-> Num2(s, 1) * 100 + Num2(s, 3), month |-> Num2(s, 6),
     day |-> Num2(s, 9)]

IsCalendarDate(s) ==
    /\ Len(s) = 10
    /\ s[5] = "-" /\ s[8] = "-"
    /\ \A k \in {1, 2, 3, 4, 6, 7, 9, 10} : isDigitChar(s[k])
    /\ LET t == DateOf(s)
       IN  /\ t.month \in 1..12
           /\ t.day \in 1..31
           /\ t.month \in {4, 6, 9, 11} => t.day <= 30
           /\ t.month = 2 => t.day <= 29
           /\ (t.month = 2 /\ t.day = 29) =>
                 (t.year % 4 = 0 /\ (t.year % 100 # 0 \/ t.year % 400 = 0))

Count(s, k, ch) == Cardinality({j \in 1..k : s[j] = ch})

\* The pattern is a valid expression on its own.
PatternValid(str) ==
    /\ \A k \in 1..Len(str) : Count(str, k, "(") >= Count(str, k, ")")
    /\ Count(str, Len(str), "(") = Count(str, Len(str), ")")

\* The pattern is a valid expression once wrapped in "(?i:" ... ")".
WrappedValid(str) ==
    /\ \A k \in 1..Len(str) : 1 + Count(str, k, "(") >= Count(str, k, ")")
    /\ Count(str, Len(str), "(") = Count(str, Len(str), ")")

StructOK(d) == d.YTDataAPIKey # "" /\ Len(d.Podcasts) >= 3

SanityOK(d) ==
    /\ d.CheckIntervalMinutes >= 1
    /\ d.YTDLFmtSelector # ""
    /\ d.YTDLWriteExt # <<>>
    /\ d.ServeHost # <<>>
    /\ d.ServePort # 0

EntryNormOK(p) ==
    /\ p.EpochStr = <<>> \/ IsCalendarDate(p.EpochStr)
    /\ WrappedValid(p.TitleFilterStr)

\* Indices of the entries that repeat the short name of an earlier entry.
RepeatIdx(d) ==
    {j \in 1..Len(d.Podcasts) :
        \E k \in 1..(j - 1) : d.Podcasts[k].ShortName = d.Podcasts[j].ShortName}

Min(S) == CHOOSE x \in S : \A y \in S : x <= y

\* Entries 1..j-1 pass the per-entry pass.
PrefixClean(d, j) ==
    \A k \in 1..(j - 1) : EntryNormOK(d.Podcasts[k]) /\ k \notin RepeatIdx(d)

Untouched(p) == p.TitleFilter = Nil /\ p.Epoch = ZeroTime

\* ------------------------------------------------------------------------
\* C1: every Configuration returned by loadConfig has at least 3 feed
\* entries, and every decoded document with fewer than 3 entries (2, 1, 0
\* or absent) fails with a validation error on field feeds.
C1_AtLeastThreeFeeds ==
    /\ Success => Len(Cfg.Podcasts) >= 3
    /\ (Returned /\ Decoded /\ Len(Doc.Podcasts) < 3) =>
          /\ ret.c = Nil
          /\ ret.err.kind = "Validate"
          /\ "podcasts" \in ret.err.fields

\* ------------------------------------------------------------------------
\* C2: in every returned Configuration the file extension is non-empty
\* and does not start with ".".
C2_ExtNonEmptyNoDot ==
    Success => /\ Cfg.YTDLWriteExt # <<>>
               /\ Head(Cfg.YTDLWriteExt) # "."

\* ------------------------------------------------------------------------
\* C3: loadConfig returns either a Configuration with no error or nil with
\* an error; a returned Configuration is the fully normalised one, and
\* nothing is returned before the call ends.
C3_AllOrNothing ==
    /\ ~Returned => ret = NoRet
    /\ Returned =>
          \/ ret.c = Nil /\ ret.err.kind # "nil"
          \/ /\ ret.c # Nil
             /\ ret.err.kind = "nil"
             /\ ret.c = c
             /\ Cfg.YTDLWriteExt = <<>> \/ Head(Cfg.YTDLWriteExt) # "."
             /\ \A k \in 1..Len(Cfg.Podcasts) :
                   Cfg.Podcasts[k].TitleFilter # Nil

\* A failure in the per-entry pass after an entry was normalised: the
\* partly normalised config exists and is not returned.
C3_Witness ==
    /\ Returned
    /\ ret.c = Nil
    /\ ret.err.kind \in {"ParseError", "RegexpError", "Duplicate"}
    /\ c # Nil
    /\ \E k \in 1..Len(c[1].Podcasts) : c[1].Podcasts[k].TitleFilter # Nil

\* ------------------------------------------------------------------------
\* C4: a returned Configuration has pairwise distinct short names (the set
\* of observed names has len(feeds) elements); a document that passes every
\* gate before the collision fails with the duplicate error carrying the
\* colliding short name.
C4_UniqueShortNames ==
    /\ Success =>
          /\ \A j, k \in 1..Len(Cfg.Podcasts) :
                j # k => Cfg.Podcasts[j].ShortName # Cfg.Podcasts[k].ShortName
          /\ Cardinality(podcastShortNameSet) = Len(Cfg.Podcasts)
    /\ (/\ Returned /\ Decoded
        /\ StructOK(Doc) /\ SanityOK(Doc)
        /\ RepeatIdx(Doc) # {}
        /\ PrefixClean(Doc, Min(RepeatIdx(Doc)))
        /\ EntryNormOK(Doc.Podcasts[Min(RepeatIdx(Doc))])) =>
          /\ ret.c = Nil
          /\ ret.err.kind = "Duplicate"
          /\ ret.err.sn = Doc.Podcasts[Min(RepeatIdx(Doc))].ShortName

C4_Witness ==
    /\ Returned
    /\ ret.err.kind = "Duplicate"
    /\ ret.err.sn = "b"
    /\ Min(RepeatIdx(Doc)) = 3

\* ------------------------------------------------------------------------
\* C5: every valid document loads, and the result satisfies the invariants
\* of the data model.
ValidDocument(d) ==
    /\ StructOK(d)
    /\ SanityOK(d)
    /\ RepeatIdx(d) = {}
    /\ \A k \in 1..Len(d.Podcasts) :
          /\ PatternValid(d.Podcasts[k].TitleFilterStr)
          /\ d.Podcasts[k].EpochStr = <<>>
             \/ IsCalendarDate(d.Podcasts[k].EpochStr)

DataModelInvariants(cfg) ==
    /\ cfg.YTDataAPIKey # ""
    /\ Len(cfg.Podcasts) >= 3
    /\ cfg.CheckIntervalMinutes >= 1
    /\ cfg.YTDLFmtSelector # ""
    /\ cfg.YTDLWriteExt # <<>>
    /\ cfg.ServeHost # <<>>
    /\ cfg.ServePort # 0
    /\ \A k \in 1..Len(cfg.Podcasts) :
          /\ cfg.Podcasts[k].TitleFilter # Nil
          /\ cfg.Podcasts[k].EpochStr # <<>> =>
                IsCalendarDate(cfg.Podcasts[k].EpochStr)
    /\ \A j, k \in 1..Len(cfg.Podcasts) :
          j # k => cfg.Podcasts[j].ShortName # cfg.Podcasts[k].ShortName

C5_ValidDocumentLoads ==
    (Returned /\ Decoded /\ ValidDocument(Doc)) =>
        Success /\ DataModelInvariants(Cfg)

\* ------------------------------------------------------------------------
\* C6: every feed entry of a returned Configuration has a non-empty
\* short name.
C6_ShortNameNonEmpty ==
    Success => \A k \in 1..Len(Cfg.Podcasts) : Cfg.Podcasts[k].ShortName # ""

\* ------------------------------------------------------------------------
\* C7: in a returned Configuration an empty epochStr gives the zero
\* timestamp and a non-empty one is a YYYY-MM-DD date whose timestamp is
\* epoch; a document with an epochStr that is not such a date is never
\* loaded, and when the pass reaches that entry the error is the parse
\* error for that string.
C7_EpochParsed ==
    /\ Success =>
          \A k \in 1..Len(Cfg.Podcasts) :
             LET p == Cfg.Podcasts[k]
             IN  /\ p.EpochStr = Doc.Podcasts[k].EpochStr
                 /\ p.EpochStr = <<>> => p.Epoch = ZeroTime
                 /\ p.EpochStr # <<>> =>
                       IsCalendarDate(p.EpochStr) /\ p.Epoch = DateOf(p.EpochStr)
    /\ (Returned /\ Decoded) =>
          \A k \in 1..Len(Doc.Podcasts) :
             LET es == Doc.Podcasts[k].EpochStr
             IN  (es # <<>> /\ ~IsCalendarDate(es)) =>
                    /\ ret.c = Nil
                    /\ ret.err.kind # "nil"
                    /\ (StructOK(Doc) /\ SanityOK(Doc) /\ PrefixClean(Doc, k)) =>
                          ret.err.kind = "ParseError" /\ ret.err.value = es

C7_Witness ==
    /\ Success
    /\ \E k \in 1..Len(Cfg.Podcasts) :
          /\ Cfg.Podcasts[k].EpochStr = E_2020_01_15
          /\ Cfg.Podcasts[k].Epoch = [year |-> 2020, month |-> 1, day |-> 15]
    /\ \E k \in 1..Len(Cfg.Podcasts) :
          Cfg.Podcasts[k].EpochStr = <<>> /\ Cfg.Podcasts[k].Epoch = ZeroTime

\* ------------------------------------------------------------------------
\* C8: urlFor gives http://{host}/{path} when the port is 80 and
\* http://{host}:{port}/{path} otherwise, the port segment being omitted
\* exactly when the port is 80; the call does not change the watcherConfig.
RECURSIVE DecValue(_, _)
DecValue(s, acc) ==
    IF s = <<>> THEN acc ELSE DecValue(Tail(s), acc * 10 + DigitVal(Head(s)))

IsDecimalOf(seg, n) ==
    LET neg == seg # <<>> /\ Head(seg) = "-"
        ds  == IF neg THEN Tail(seg) ELSE seg
    IN  /\ ds # <<>>
        /\ \A k \in 1..Len(ds) : isDigitChar(ds[k])
        /\ Len(ds) > 1 => ds[1] # "0"
        /\ neg = (n < 0)
        /\ DecValue(ds, 0) = (IF n < 0 THEN -n ELSE n)

UrlShape ==
    LET wc     == c[1]
        noPort == HttpPrefix \o wc.ServeHost \o <<"/">> \o filePath
        from   == Len(HttpPrefix) + Len(wc.ServeHost)
        seg    == SubSeq(url, from + 2, Len(url) - Len(filePath) - 1)
    IN  url # <<>> =>
          /\ wc.ServePort = 80 => url = noPort
          /\ wc.ServePort # 80 =>
                /\ url = HttpPrefix \o wc.ServeHost \o <<":">> \o seg
                         \o <<"/">> \o filePath
                /\ IsDecimalOf(seg, wc.ServePort)
          /\ (url = noPort) <=> (wc.ServePort = 80)

C8_UrlFor == []UrlShape /\ [][c' = c]_vars

C8_Witness ==
    /\ url # <<>>
    /\ c[1].ServePort = 8080
    /\ c[1].ServeHost = <<"h">>
    /\ filePath = <<"x", ".", "x", "m", "l">>

\* ------------------------------------------------------------------------
\* C9: the error returned is that of the earliest violated gate, in the
\* order structural validation, interval, format selector, file extension,
\* host, port; and no per-entry normalisation is performed.
C9_EarliestGateWins ==
    (Returned /\ Decoded) =>
       LET d == Doc
           sanity(msg) == /\ ret.c = Nil /\ ret.err.kind = "Sanity"
                          /\ ret.err.msg = msg
       IN  /\ ~StructOK(d) => ret.c = Nil /\ ret.err.kind = "Validate"
           /\ (StructOK(d) /\ ~SanityOK(d)) =>
                 IF d.CheckIntervalMinutes < 1
                 THEN sanity("check interval must be >= 1 minutes")
                 ELSE IF d.YTDLFmtSelector = ""
                 THEN sanity("missing format selector")
                 ELSE IF d.YTDLWriteExt = <<>>
                 THEN sanity("missing file type extension")
                 ELSE IF d.ServeHost = <<>>
                 THEN sanity("missing host to webserve on")
                 ELSE sanity("missing fixed port to webserve on")
           /\ (~StructOK(d) \/ ~SanityOK(d)) =>
                 /\ i = 0
                 /\ \A k \in 1..Len(c[1].Podcasts) : Untouched(c[1].Podcasts[k])

\* ------------------------------------------------------------------------
\* C10: the per-entry pass runs in document order and stops at the first
\* failure.  When entry j is the first to repeat an earlier short name, no
\* entry after j is ever normalised and the index never passes j; when the
\* pass reaches the collision at j, the error is the duplicate error.
C10_StopsAtFirstDuplicate ==
    (Decoded /\ c # Nil /\ RepeatIdx(Doc) # {}) =>
       LET j == Min(RepeatIdx(Doc))
       IN  /\ i < j
           /\ \A k \in (j + 1)..Len(c[1].Podcasts) : Untouched(c[1].Podcasts[k])
           /\ Returned => ret.c = Nil
           /\ (/\ Returned /\ StructOK(Doc) /\ SanityOK(Doc)
               /\ PrefixClean(Doc, j) /\ EntryNormOK(Doc.Podcasts[j])) =>
                 /\ ret.err.kind = "Duplicate"
                 /\ ret.err.sn = Doc.Podcasts[j].ShortName
                 /\ i = j - 1

\* A collision at the second entry, followed by an entry whose epoch or
\* pattern is invalid.
C10_Witness ==
    /\ Returned
    /\ ret.err.kind = "Duplicate"
    /\ Min(RepeatIdx(Doc)) = 2
    /\ Len(Doc.Podcasts) >= 3
    /\ ~EntryNormOK(Doc.Podcasts[3])

====
